---- MODULE Spec2Model ----
(***************************************************************************)
(* Model of fluid-hand-tracking.                                           *)
(*                                                                         *)
(*   Spec     the HandTracking effect (src/src/App.tsx 95-262): the 1 s    *)
(*            start timer, loadMediaPipeScript, setupCamera, the detector  *)
(*            initialisation, the frame loop and the effect cleanup.       *)
(*   MapSpec  the effect up to the results of the first frame, with the    *)
(*            hand points, viewports and canvases of the mapping (App.tsx   *)
(*            194-211) drawn from wider sets.                               *)
(*   SimSpec  the hand proxies of LiquidSimulation (src/unnamed/part_000). *)
(*   ColorSpec  the recolouring of the particles after an engine update.   *)
(*   ResizeSpec the useResizable hook (src/unnamed/part_000 9-66).         *)
(*                                                                         *)
(* The browser, React and the two libraries are the environment: which     *)
(* event arrives next (script load/error, getUserMedia, loadeddata,        *)
(* initialize, animation frame, detector results, ref detachment, effect   *)
(* cleanup) is a nondeterministic choice.  One action is one event-loop    *)
(* task of the program together with the promise continuations that run    *)
(* in its microtask checkpoint.  The results listener calls onHandUpdate,   *)
(* which is LiquidCanvas.handleHandUpdate, so a results event moves the    *)
(* hand bodies of the simulation in the same task.                         *)
(***************************************************************************)
EXTENDS Integers, Sequences, FiniteSets

VARIABLES
    \* ---- HandTracking effect -------------------------------------------
    mounted,        \* `let mounted` of the effect closure (App.tsx 110)
    videoRef,       \* videoRef.current is an element (TRUE) or null (FALSE)
    canvasRef,      \* canvasRef.current is an element (TRUE) or null (FALSE)
    initTimeout,    \* the 1 s timer: "pending", "fired", "cleared"
    pc,             \* where initializeTracking is suspended
    \* ---- loadMediaPipeScript -------------------------------------------
    scriptSrc,      \* script.src: "none", "base", "fallback"
    scriptOnError,  \* script.onerror: "none", "fallback", "reject"
    scriptFetch,    \* "none", "pending" (an event is still to come), "done"
    loadAttempts,   \* number of times script.src was assigned
    scriptErrors,   \* number of error events dispatched to the element
    checkTimer,     \* the 500 ms timer: "none", "pending", "fired"
    scriptPromise,  \* "none", "pending", "resolved", "rejected"
    settleCalls,    \* number of resolve()/reject() calls on that promise
    \* ---- camera --------------------------------------------------------
    cameraRequests, \* number of getUserMedia calls
    stream,         \* the MediaStream: "none", "live", "stopped"
    streamRef,      \* streamRef.current holds the stream
    \* ---- detector ------------------------------------------------------
    hands,          \* "none", "initializing", "ready", "failed", "closed"
    handsRef,       \* handsRef.current holds the detector
    handsConstructed, \* number of `new HandsConstructor` calls
    \* ---- UI state ------------------------------------------------------
    error,          \* "none", "script", "camera", "tracking"
    isLoading,
    isCameraReady,
    \* ---- frame loop ----------------------------------------------------
    rafPending,     \* number of scheduled processFrame callbacks
    rafCalls,       \* number of requestAnimationFrame(processFrame) calls
    inFlight,       \* frames given to hands.send whose promise is pending
    resultSeen,     \* frames whose results the detector has delivered
    nextFrame,      \* number of the next video frame
    processed,      \* frames whose onResults callback passed its guards
    handUpdates,    \* the onHandUpdate calls, as <<frame, handIndex>>
    \* ---- coordinate mapping of the latest results ----------------------
    mapIn,          \* per onHandUpdate call: hand point, viewport, canvas
    mapOut,         \* per onHandUpdate call: the index, x and y handed over
    \* ---- LiquidSimulation (SimSpec, ColorSpec) -------------------------
    sim,
    \* ---- useResizable (ResizeSpec) -------------------------------------
    rz

effectVars == <<mounted, videoRef, canvasRef, initTimeout, pc>>
scriptVars == <<scriptSrc, scriptOnError, scriptFetch, loadAttempts,
                scriptErrors, checkTimer, scriptPromise, settleCalls>>
cameraVars == <<cameraRequests, stream, streamRef>>
handsVars  == <<hands, handsRef, handsConstructed>>
uiVars     == <<error, isLoading, isCameraReady>>
loopVars   == <<rafPending, rafCalls, inFlight, resultSeen, nextFrame,
                processed, handUpdates>>
trackVars  == <<effectVars, scriptVars, cameraVars, handsVars, uiVars,
                loopVars>>
otherVars  == <<mapIn, mapOut, sim, rz>>
vars       == <<trackVars, otherVars>>

(***************************************************************************)
(* Bounds of the model and constants of the program.                       *)
(***************************************************************************)
MaxFrames == 3          \* video frames the camera delivers in one run
maxNumHands == 2        \* HANDS_CONFIG.maxNumHands on a desktop viewport

(***************************************************************************)
(* State after the first commit of <HandTracking>: the refs are attached,  *)
(* the effect has run (mounted = true, the 1 s timer is armed), nothing    *)
(* has been loaded, acquired or constructed.                               *)
(***************************************************************************)
TrackInit ==
    /\ mounted = TRUE
    /\ videoRef = TRUE
    /\ canvasRef = TRUE
    /\ initTimeout = "pending"
    /\ pc = "idle"
    /\ scriptSrc = "none"
    /\ scriptOnError = "none"
    /\ scriptFetch = "none"
    /\ loadAttempts = 0
    /\ scriptErrors = 0
    /\ checkTimer = "none"
    /\ scriptPromise = "none"
    /\ settleCalls = 0
    /\ cameraRequests = 0
    /\ stream = "none"
    /\ streamRef = FALSE
    /\ hands = "none"
    /\ handsRef = FALSE
    /\ handsConstructed = 0
    /\ error = "none"
    /\ isLoading = TRUE
    /\ isCameraReady = FALSE
    /\ rafPending = 0
    /\ rafCalls = 0
    /\ inFlight = {}
    /\ resultSeen = {}
    /\ nextFrame = 1
    /\ processed = <<>>
    /\ handUpdates = <<>>

(***************************************************************************)
(* The catch blocks of initializeTracking.  Each one sets the error, ends  *)
(* the loading state and leaves the function.                              *)
(***************************************************************************)

\* catch of `await loadMediaPipeScript()`
ScriptCatch ==
    /\ error' = "script"
    /\ isLoading' = FALSE
    /\ pc' = "failed"

\* catch of `await setupCamera(videoRef)`
CameraCatch ==
    /\ error' = "camera"
    /\ isLoading' = FALSE
    /\ pc' = "failed"
    /\ UNCHANGED <<hands, handsConstructed>>

\* catch of the detector block (there is nothing after it to return from)
TrackingCatch ==
    /\ error' = "tracking"
    /\ isLoading' = FALSE
    /\ pc' = "failed"

(***************************************************************************)
(* The 1 s timer fires: initializeTracking() starts, sets isLoading and    *)
(* calls loadMediaPipeScript, which creates the script element, gives it   *)
(* the primary source and its two handlers, and appends it to the head.    *)
(***************************************************************************)
InitTimeoutFires ==
    /\ initTimeout = "pending"
    /\ initTimeout' = "fired"
    /\ isLoading' = TRUE
    /\ scriptSrc' = "base"
    /\ scriptOnError' = "fallback"
    /\ scriptFetch' = "pending"
    /\ loadAttempts' = loadAttempts + 1
    /\ scriptPromise' = "pending"
    /\ pc' = "loadScript"
    /\ UNCHANGED <<mounted, videoRef, canvasRef, scriptErrors, checkTimer,
                   settleCalls, cameraVars, handsVars, error, isCameraReady,
                   loopVars>>
    /\ UNCHANGED otherVars

(***************************************************************************)
(* loadMediaPipeScript                                                     *)
(***************************************************************************)

\* script.onload = checkHandsAvailability: arm the 500 ms timer
ScriptOnLoad ==
    /\ scriptFetch = "pending"
    /\ scriptFetch' = "done"
    /\ checkTimer' = "pending"
    /\ UNCHANGED <<effectVars, scriptSrc, scriptOnError, loadAttempts,
                   scriptErrors, scriptPromise, settleCalls, cameraVars,
                   handsVars, uiVars, loopVars>>
    /\ UNCHANGED otherVars

\* the promise's resolve(): the first call settles it; the continuation of
\* `await loadMediaPipeScript()` then calls setupCamera, which calls
\* getUserMedia.  `mounted` is not read in between.
ScriptResolve ==
    /\ settleCalls' = settleCalls + 1
    /\ IF scriptPromise = "pending"
       THEN /\ scriptPromise' = "resolved"
            /\ cameraRequests' = cameraRequests + 1
            /\ pc' = "getUserMedia"
            /\ UNCHANGED uiVars
       ELSE UNCHANGED <<scriptPromise, cameraRequests, pc, uiVars>>

\* the promise's reject(): the first call settles it; the continuation is
\* the catch block.
ScriptReject ==
    /\ settleCalls' = settleCalls + 1
    /\ IF scriptPromise = "pending"
       THEN /\ scriptPromise' = "rejected"
            /\ ScriptCatch
            /\ UNCHANGED <<cameraRequests, isCameraReady>>
       ELSE UNCHANGED <<scriptPromise, cameraRequests, pc, uiVars>>

\* the 500 ms timer of checkHandsAvailability: window.Hands decides
CheckHandsAvailability ==
    /\ checkTimer = "pending"
    /\ checkTimer' = "fired"
    /\ \E windowHands \in BOOLEAN :
          IF windowHands THEN ScriptResolve ELSE ScriptReject
    /\ UNCHANGED <<mounted, videoRef, canvasRef, initTimeout, scriptSrc,
                   scriptOnError, scriptFetch, loadAttempts, scriptErrors,
                   stream, streamRef, handsVars, loopVars>>
    /\ UNCHANGED otherVars

\* the first script.onerror: switch to the fallback source, keep onload,
\* make the next error reject.  The element has already started, so the
\* browser does not prepare it again when src changes: nothing is fetched
\* and neither a load nor an error event is to come.
OnErrorFallback ==
    /\ scriptSrc' = "fallback"
    /\ scriptOnError' = "reject"
    /\ loadAttempts' = loadAttempts + 1
    /\ scriptFetch' = "done"
    /\ UNCHANGED <<scriptPromise, settleCalls, cameraRequests, pc, uiVars>>

\* the handler the first one installs, script.onerror = reject; it runs
\* only if the element gets another error event
OnErrorReject ==
    /\ scriptFetch' = "done"
    /\ ScriptReject
    /\ UNCHANGED <<scriptSrc, scriptOnError, loadAttempts>>

\* an error event of the script element runs the handler installed then
ScriptOnError ==
    /\ scriptFetch = "pending"
    /\ scriptErrors' = scriptErrors + 1
    /\ IF scriptOnError = "fallback" THEN OnErrorFallback ELSE OnErrorReject
    /\ UNCHANGED <<mounted, videoRef, canvasRef, initTimeout, checkTimer,
                   stream, streamRef, handsVars, loopVars>>
    /\ UNCHANGED otherVars

(***************************************************************************)
(* setupCamera                                                             *)
(***************************************************************************)

\* getUserMedia resolved with a stream.  With the video element gone the
\* function throws 'Video element not found' (the stream is in no ref);
\* otherwise it sets srcObject and waits for loadeddata.
GetUserMediaResolved ==
    /\ pc = "getUserMedia"
    /\ stream' = "live"
    /\ IF videoRef
       THEN /\ pc' = "loadeddata"
            /\ UNCHANGED <<uiVars, hands, handsConstructed>>
       ELSE /\ CameraCatch
            /\ UNCHANGED isCameraReady
    /\ UNCHANGED <<mounted, videoRef, canvasRef, initTimeout, scriptVars,
                   cameraRequests, streamRef, handsRef, loopVars, otherVars>>

\* getUserMedia rejected (permission denied, no device)
GetUserMediaRejected ==
    /\ pc = "getUserMedia"
    /\ CameraCatch
    /\ UNCHANGED <<mounted, videoRef, canvasRef, initTimeout, scriptVars,
                   cameraVars, handsRef, isCameraReady, loopVars, otherVars>>

(***************************************************************************)
(* The video's loadeddata event resolves setupCamera.  The continuation    *)
(* returns if the effect is torn down; otherwise it stores the stream,     *)
(* sets isCameraReady, constructs the detector, sets its options and       *)
(* calls initialize().  The constructor may throw.                         *)
(***************************************************************************)
OnLoadedData ==
    /\ pc = "loadeddata"
    /\ IF ~mounted
       THEN /\ pc' = "returned"
            /\ UNCHANGED <<streamRef, handsVars, uiVars>>
       ELSE /\ streamRef' = TRUE
            /\ isCameraReady' = TRUE
            /\ handsConstructed' = handsConstructed + 1
            /\ UNCHANGED handsRef
            /\ \E constructed \in BOOLEAN :
                  IF constructed
                  THEN /\ hands' = "initializing"
                       /\ pc' = "initialize"
                       /\ UNCHANGED <<error, isLoading>>
                  ELSE /\ hands' = hands
                       /\ TrackingCatch
    /\ UNCHANGED <<mounted, videoRef, canvasRef, initTimeout, scriptVars,
                   cameraRequests, stream, loopVars, otherVars>>

\* hands.initialize() resolved: register onResults, store the detector in
\* handsRef, and, if the video element is still there, schedule the first
\* processFrame and end the loading state.
HandsInitialized ==
    /\ pc = "initialize"
    /\ hands' = "ready"
    /\ handsRef' = TRUE
    /\ IF videoRef
       THEN /\ rafPending' = rafPending + 1
            /\ rafCalls' = rafCalls + 1
            /\ isLoading' = FALSE
            /\ pc' = "tracking"
       ELSE /\ pc' = "returned"
            /\ UNCHANGED <<rafPending, rafCalls, isLoading>>
    /\ UNCHANGED <<mounted, videoRef, canvasRef, initTimeout, scriptVars,
                   cameraVars, handsConstructed, error, isCameraReady,
                   inFlight, resultSeen, nextFrame, processed, handUpdates,
                   otherVars>>

\* hands.initialize() rejected
HandsInitializeFailed ==
    /\ pc = "initialize"
    /\ hands' = "failed"
    /\ TrackingCatch
    /\ UNCHANGED <<mounted, videoRef, canvasRef, initTimeout, scriptVars,
                   cameraVars, handsRef, handsConstructed, isCameraReady,
                   loopVars, otherVars>>

(***************************************************************************)
(* The frame loop                                                          *)
(***************************************************************************)

\* A mutant of ProcessFrame: the send is not awaited, the next callback is
\* scheduled as soon as the frame has been handed to the detector.
ProcessFrameNoAwait ==
    /\ rafPending > 0
    /\ (mounted /\ videoRef /\ handsRef) => nextFrame <= MaxFrames
    /\ IF ~mounted \/ ~videoRef \/ ~handsRef
       THEN /\ rafPending' = rafPending - 1
            /\ UNCHANGED <<inFlight, nextFrame, rafCalls>>
       ELSE /\ inFlight' = inFlight \cup {nextFrame}
            /\ nextFrame' = nextFrame + 1
            /\ rafPending' = rafPending
            /\ rafCalls' = rafCalls + 1
    /\ UNCHANGED <<effectVars, scriptVars, cameraVars, handsVars, uiVars,
                   resultSeen, processed, handUpdates, otherVars>>

\* An animation frame runs processFrame: it returns if the effect is torn
\* down or a ref is empty, otherwise it hands the current video frame to
\* hands.send and suspends until that promise settles.
ProcessFrame ==
    /\ rafPending > 0
    /\ (mounted /\ videoRef /\ handsRef) => nextFrame <= MaxFrames
    /\ rafPending' = rafPending - 1
    /\ IF ~mounted \/ ~videoRef \/ ~handsRef
       THEN UNCHANGED <<inFlight, nextFrame>>
       ELSE /\ inFlight' = inFlight \cup {nextFrame}
            /\ nextFrame' = nextFrame + 1
    /\ UNCHANGED <<effectVars, scriptVars, cameraVars, handsVars, uiVars,
                   rafCalls, resultSeen, processed, handUpdates, otherVars>>

\* the members of a set of hand indices in ascending order (forEach order)
RECURSIVE Ascending(_)
Ascending(S) ==
    IF S = {} THEN <<>>
    ELSE LET m == CHOOSE x \in S : \A y \in S : x <= y
         IN  <<m>> \o Ascending(S \ {m})

\* hands.send resolved: processFrame goes on and schedules the next
\* callback.  `mounted` is read only when that callback runs.
SendResolved(f) ==
    /\ f \in inFlight
    /\ inFlight' = inFlight \ {f}
    /\ rafPending' = rafPending + 1
    /\ rafCalls' = rafCalls + 1
    /\ UNCHANGED <<effectVars, scriptVars, cameraVars, handsVars, uiVars,
                   resultSeen, nextFrame, processed, handUpdates, otherVars>>

\* hands.send rejected: processFrame ends with an unhandled rejection
SendRejected(f) ==
    /\ f \in inFlight
    /\ inFlight' = inFlight \ {f}
    /\ UNCHANGED <<effectVars, scriptVars, cameraVars, handsVars, uiVars,
                   rafPending, rafCalls, resultSeen, nextFrame, processed,
                   handUpdates, otherVars>>

(***************************************************************************)
(* Teardown                                                                *)
(***************************************************************************)

\* React detaches the refs of the unmounting component in the commit; the
\* effect cleanup runs after it.
DetachRefs ==
    /\ videoRef
    /\ videoRef' = FALSE
    /\ canvasRef' = FALSE
    /\ UNCHANGED <<mounted, initTimeout, pc, scriptVars, cameraVars,
                   handsVars, uiVars, loopVars, otherVars>>

HandIndices == 0 .. (maxNumHands - 1)

(***************************************************************************)
(* The coordinate mapping of hands.onResults, in exact rational            *)
(* arithmetic: a number is <<numerator, denominator>>, denominator > 0,    *)
(* in lowest terms.  (The program computes in IEEE doubles; rounding is    *)
(* not modelled.)                                                          *)
(***************************************************************************)
Grid == 4                \* normalized coordinates are multiples of 1/Grid
Viewports == {<<1920, 1080>>, <<1024, 768>>, <<375, 667>>}
Canvases == {<<640, 480>>, <<320, 480>>}    \* CANVAS_DIMENSIONS

Abs(n) == IF n < 0 THEN -n ELSE n

RECURSIVE GCD(_, _)
GCD(a, b) == IF b = 0 THEN a ELSE GCD(b, a % b)

RNorm(r) ==
    LET g == GCD(Abs(r[1]), Abs(r[2]))
        sgn == IF r[2] < 0 THEN -1 ELSE 1
    IN  <<sgn * (r[1] \div g), sgn * (r[2] \div g)>>

RInt(n) == <<n, 1>>
RMul(a, b) == RNorm(<<a[1] * b[1], a[2] * b[2]>>)
RDiv(a, b) == RNorm(<<a[1] * b[2], a[2] * b[1]>>)
RSub(a, b) == RNorm(<<a[1] * b[2] - b[1] * a[2], a[2] * b[2]>>)
RAdd(a, b) == RNorm(<<a[1] * b[2] + b[1] * a[2], a[2] * b[2]>>)
RLe(a, b) == a[1] * b[2] <= b[1] * a[2]
RMin(a, b) == IF RLe(a, b) THEN a ELSE b
RMax(a, b) == IF RLe(a, b) THEN b ELSE a

\* A mutant of Scale: the division by the canvas dimension is lost.
ScaleNoCanvas(inner, canvasDim) == RMul(RInt(inner), <<2, 1>>)

\* scaleX = (window.innerWidth * 2.0) / canvas.width, and scaleY alike
Scale(inner, canvasDim) ==
    RDiv(RMul(RInt(inner), <<2, 1>>), RInt(canvasDim))

\* offsetX = window.innerWidth * 0.5, and offsetY alike
Offset(inner) == RMul(RInt(inner), <<1, 2>>)

\* handPoint.x * canvas.width * scaleX - offsetX, and the y term alike
Scaled(h, inner, canvasDim) ==
    RSub(RMul(RMul(h, RInt(canvasDim)), Scale(inner, canvasDim)),
         Offset(inner))

\* mirroredX = window.innerWidth - (handPoint.x * canvas.width * scaleX - offsetX)
MirroredX(hx, innerWidth, canvasWidth) ==
    RSub(RInt(innerWidth), Scaled(hx, innerWidth, canvasWidth))

\* A mutant of Clamp: the Math.max(0, ...) is lost.
ClampNoLower(inner, v) == RMin(RInt(inner), v)

\* A mutant of Clamp: the Math.min(inner, ...) is lost.
ClampNoUpper(inner, v) == RMax(RInt(0), v)

\* Math.max(0, Math.min(inner, v))
Clamp(inner, v) == RMax(RInt(0), RMin(RInt(inner), v))

\* the x and y handed to onHandUpdate
MapX(hx, innerWidth, canvasWidth) ==
    Clamp(innerWidth, MirroredX(hx, innerWidth, canvasWidth))
MapY(hy, innerHeight, canvasHeight) ==
    Clamp(innerHeight, Scaled(hy, innerHeight, canvasHeight))

\* normalized coordinates the detector may report, some out of [0, 1]
Normalized == {RNorm(<<k, Grid>>) : k \in (-1) .. (Grid + 1)}

MapInit == mapIn = <<>> /\ mapOut = <<>>

(***************************************************************************)
(* LiquidSimulation: the two hand bodies and the world they are in.        *)
(* sim.op is the last operation that ran and sim.call the arguments of     *)
(* the last updateHandPosition.  Coordinates and velocity components are   *)
(* rationals.  sim.running tells that the runner started by the            *)
(* constructor has not been stopped.  sim.last is history: per hand index, *)
(* the target of its latest call.                                          *)
(***************************************************************************)
SimXs == {0, 960, 1920}      \* x targets handed to updateHandPosition
SimYs == {0, 540}            \* y targets handed to updateHandPosition

\* Bodies.circle(0, 0, 50, {isStatic: true, ...})
HandCircle(id) ==
    [id |-> id, position |-> <<RInt(0), RInt(0)>>,
     velocity |-> <<RInt(0), RInt(0)>>, force |-> "zero"]

(***************************************************************************)
(* The particles: NumParticles of them stand for the grid the constructor  *)
(* creates.  A velocity is a pair of integers whose length is an integer,  *)
(* so that Math.sqrt is exact; strokeStyle is the colour as hue,           *)
(* saturation % and lightness % ('#ffffff' is hue 0, 0 %, 100 %).          *)
(***************************************************************************)
NumParticles == 2
maxVelocity == 15
ParticleVelocities ==
    {<<0, 0>>, <<1, 0>>, <<3, 4>>, <<0, -7>>, <<6, 8>>, <<-5, 12>>,
     <<9, 12>>, <<-15, 0>>, <<0, 16>>, <<8, 15>>, <<-12, -16>>}

\* Bodies.fromVertices(..., particleOptions): at rest, white stroke
Particle ==
    [velocity |-> <<0, 0>>,
     strokeStyle |-> [hue |-> RInt(0), saturation |-> 0,
                      lightness |-> RInt(100)]]

\* Math.sqrt of a perfect square
Sqrt(n) == CHOOSE r \in 0..n : r * r = n

\* velocity = Math.sqrt(vx * vx + vy * vy)
Speed(v) == RInt(Sqrt(v[1] * v[1] + v[2] * v[2]))

\* A mutant of NormalizedVelocity: the Math.min(..., 1) is lost.
NormalizedVelocityNoClamp(speed) == RDiv(speed, RInt(maxVelocity))

\* normalizedVelocity = Math.min(velocity / this.maxVelocity, 1)
NormalizedVelocity(speed) ==
    RMin(RDiv(speed, RInt(maxVelocity)), RInt(1))

\* hue = (1 - normalizedVelocity) * 180
Hue(n) == RMul(RSub(RInt(1), n), RInt(180))

\* lightness = 50 + normalizedVelocity * 20
Lightness(n) == RAdd(RInt(50), RMul(n, RInt(20)))

\* the strokeStyle updateParticleColors gives one particle
Recolored(particle) ==
    LET n == NormalizedVelocity(Speed(particle.velocity))
    IN  [particle EXCEPT
            !.strokeStyle = [hue |-> Hue(n), saturation |-> 100,
                             lightness |-> Lightness(n)]]

\* updateParticleColors: every particle of this.particles
updateParticleColors(ps) == [k \in DOMAIN ps |-> Recolored(ps[k])]

\* the constructor: both hand bodies are created and added to the world,
\* then the walls and the particles
SimInit ==
    sim = [op |-> "constructor",
           call |-> <<>>,
           last |-> [i \in HandIndices |-> <<>>],
           leftHandBody |-> HandCircle("left"),
           rightHandBody |-> HandCircle("right"),
           particles |-> [k \in 1..NumParticles |-> Particle],
           running |-> TRUE,
           world |-> {"left", "right", "walls", "particles"}]

\* A mutant of HandBody: every index addresses the left body.
HandBodyAlwaysLeft(handIndex) == "leftHandBody"

\* handIndex === 0 ? this.leftHandBody : this.rightHandBody
HandBody(handIndex) ==
    IF handIndex = 0 THEN "leftHandBody" ELSE "rightHandBody"

\* A mutant of Moved: setPosition runs before the displacement is read,
\* so the velocity is computed from the target itself.
MovedPositionFirst(body, x, y) ==
    [body EXCEPT
        !.force = "random",
        !.velocity = <<RMul(RSub(x, x), <<6, 5>>),
                       RMul(RSub(y, y), <<6, 5>>)>>,
        !.position = <<x, y>>]

\* applyForce with a tiny random force, setVelocity to 1.2 times the
\* displacement, setPosition to the target
Moved(body, x, y) ==
    [body EXCEPT
        !.force = "random",
        !.velocity = <<RMul(RSub(x, body.position[1]), <<6, 5>>),
                       RMul(RSub(y, body.position[2]), <<6, 5>>)>>,
        !.position = <<x, y>>]

\* the simulation s after its method updateHandPosition(handIndex, x, y)
HandPositionUpdated(s, handIndex, x, y) ==
    [s EXCEPT
        ![HandBody(handIndex)] = Moved(@, x, y),
        !.op = "updateHandPosition",
        !.call = <<handIndex, x, y>>,
        !.last[handIndex] = <<x, y>>]

\* LiquidCanvas.handleHandUpdate: simulationRef.current?.updateHandPosition.
\* simulationRef is set when the simulation is constructed and is never
\* reset, so the call still reaches the simulation after destroy().
handleHandUpdate(s, handIndex, x, y) == HandPositionUpdated(s, handIndex, x, y)

\* a call of updateHandPosition(handIndex, x, y) on its own
updateHandPosition(handIndex, x, y) ==
    /\ sim' = HandPositionUpdated(sim, handIndex, x, y)
    /\ UNCHANGED <<trackVars, mapIn, mapOut, rz>>

\* One Engine.update of the runner: static bodies are not integrated, the
\* particles get the velocities vels from the engine, the forces of all
\* bodies are cleared, and the afterUpdate event runs updateParticleColors.
\* The runner ticks from Runner.run in the constructor to Runner.stop in
\* destroy().
EngineStep(vels) ==
    /\ sim.running
    /\ sim' = [sim EXCEPT
                  !.leftHandBody.force = "zero",
                  !.rightHandBody.force = "zero",
                  !.particles = updateParticleColors(
                      [k \in 1..NumParticles |->
                          [sim.particles[k] EXCEPT !.velocity = vels[k]]]),
                  !.op = "update"]
    /\ UNCHANGED <<trackVars, mapIn, mapOut, rz>>

\* an engine update that finds the particles at rest
EngineUpdate ==
    EngineStep([k \in 1..NumParticles |-> sim.particles[k].velocity])

\* an engine update in which the particles move
EngineUpdateMoving ==
    \E vels \in [1..NumParticles -> ParticleVelocities] : EngineStep(vels)

\* the simulation s after destroy(): stop render and runner,
\* Composite.clear(world, false)
Destroyed(s) ==
    [s EXCEPT !.running = FALSE, !.world = {}, !.op = "destroy"]

\* a call of destroy() on its own
destroy ==
    /\ sim.world # {}
    /\ sim' = Destroyed(sim)
    /\ UNCHANGED <<trackVars, mapIn, mapOut, rz>>

\* The tree unmounts.  React runs the effect cleanups of the deleted tree
\* in one flush: that of LiquidCanvas, simulation.destroy(), and that of
\* HandTracking: clear the flag and the start timer, stop the tracks of
\* the stream in streamRef, close the detector in handsRef.
Cleanup ==
    /\ mounted
    /\ sim' = Destroyed(sim)
    /\ mounted' = FALSE
    /\ initTimeout' = IF initTimeout = "pending" THEN "cleared"
                      ELSE initTimeout
    /\ stream' = IF streamRef THEN "stopped" ELSE stream
    /\ hands' = IF handsRef THEN "closed" ELSE hands
    /\ UNCHANGED <<videoRef, canvasRef, pc, scriptVars, cameraRequests,
                   streamRef, handsRef, handsConstructed, uiVars, loopVars,
                   mapIn, mapOut, rz>>

(***************************************************************************)
(* The results listener of the detector (App.tsx 150-223).                 *)
(***************************************************************************)
Window == <<1920, 1080>>          \* window.innerWidth, window.innerHeight
Canvas == <<640, 480>>            \* canvas.width, canvas.height
\* hand points (normalized x, y) of the landmarks the detector reports
HandPoints == {<<<<1, 2>>, <<1, 2>>>>, <<<<1, 4>>, <<5, 4>>>>}

\* the arguments of the mapping of one hand point, and the call it makes
MapInput(index, point, window, canvas) ==
    [index |-> index, x |-> point[1], y |-> point[2],
     innerWidth |-> window[1], innerHeight |-> window[2],
     canvasWidth |-> canvas[1], canvasHeight |-> canvas[2]]
MapOutput(index, point, window, canvas) ==
    [index |-> index,
     x |-> MapX(point[1], window[1], canvas[1]),
     y |-> MapY(point[2], window[2], canvas[2])]

\* multiHandLandmarks.forEach: onHandUpdate(index, x, y) for the hands of
\* `order`, one after the other
RECURSIVE HandsUpdated(_, _, _, _, _)
HandsUpdated(s, order, points, window, canvas) ==
    IF order = <<>> THEN s
    ELSE LET index == Head(order)
             out == MapOutput(index, points[index], window, canvas)
         IN  HandsUpdated(handleHandUpdate(s, index, out.x, out.y),
                          Tail(order), points, window, canvas)

\* The detector delivers the results of a frame it was sent: the listener
\* returns if the effect is torn down, the canvas is gone or it has no 2d
\* context (ctx); otherwise it draws and, for every hand of
\* multiHandLandmarks whose hand point is present, in index order, maps the
\* point for the viewport `window` and the canvas dimensions `canvas` and
\* calls onHandUpdate(index, x, y), which moves the hand body.
OnResults(f, ctx, present, points, window, canvas) ==
    /\ f \in inFlight \ resultSeen
    /\ resultSeen' = resultSeen \cup {f}
    /\ IF ~mounted \/ ~canvasRef \/ ~ctx
       THEN UNCHANGED <<processed, handUpdates, mapIn, mapOut, sim>>
       ELSE LET order == Ascending(present)
            IN  /\ processed' = Append(processed, f)
                /\ handUpdates' = handUpdates \o
                      [k \in 1..Len(order) |-> <<f, order[k]>>]
                /\ sim' = HandsUpdated(sim, order, points, window, canvas)
                /\ IF order = <<>>
                   THEN UNCHANGED <<mapIn, mapOut>>
                   ELSE /\ mapIn' = [k \in 1..Len(order) |->
                               MapInput(order[k], points[order[k]],
                                        window, canvas)]
                        /\ mapOut' = [k \in 1..Len(order) |->
                               MapOutput(order[k], points[order[k]],
                                         window, canvas)]
    /\ UNCHANGED <<effectVars, scriptVars, cameraVars, handsVars, uiVars,
                   rafPending, rafCalls, inFlight, nextFrame, rz>>

TrackNext ==
    \/ InitTimeoutFires
    \/ ScriptOnLoad
    \/ ScriptOnError
    \/ CheckHandsAvailability
    \/ GetUserMediaResolved
    \/ GetUserMediaRejected
    \/ OnLoadedData
    \/ HandsInitialized
    \/ HandsInitializeFailed
    \/ ProcessFrame
    \/ \E f \in 1..MaxFrames, ctx \in BOOLEAN,
          present \in SUBSET HandIndices :
            \E points \in [present -> HandPoints] :
                OnResults(f, ctx, present, points, Window, Canvas)
    \/ \E f \in 1..MaxFrames : SendResolved(f)
    \/ \E f \in 1..MaxFrames : SendRejected(f)
    \/ DetachRefs
    \/ Cleanup

\* CANVAS_DIMENSIONS and HANDS_CONFIG are evaluated together when the
\* module loads: the 320 wide canvas goes with maxNumHands 1
HandsDetected(canvas) == IF canvas[1] < 640 THEN {0} ELSE HandIndices

\* The effect up to the results of the first frame (its send stays
\* pending).  The viewport is the one at the time of the results, the
\* canvas the one of the load; the hand points run over Normalized.
MapNext ==
    \/ InitTimeoutFires
    \/ ScriptOnLoad
    \/ ScriptOnError
    \/ CheckHandsAvailability
    \/ GetUserMediaResolved
    \/ GetUserMediaRejected
    \/ OnLoadedData
    \/ HandsInitialized
    \/ HandsInitializeFailed
    \/ ProcessFrame
    \/ \E f \in inFlight \ resultSeen, ctx \in BOOLEAN,
          window \in Viewports, canvas \in Canvases :
            \E present \in SUBSET HandsDetected(canvas) :
                \E points \in [present -> Normalized \X Normalized] :
                    OnResults(f, ctx, present, points, window, canvas)
    \/ DetachRefs
    \/ Cleanup

SimNext ==
    \/ \E i \in HandIndices, x \in SimXs, y \in SimYs :
          updateHandPosition(i, RInt(x), RInt(y))
    \/ EngineUpdate
    \/ destroy


(***************************************************************************)
(* useResizable, as HandTracking calls it.  rz holds the hook's state      *)
(* (width, height), its refs (isResizing, startWidth, startX) and the      *)
(* options of the call; rz.event is the last mouse event and rz.held is    *)
(* history: a mousedown on the handle has not been followed by a mouseup.  *)
(***************************************************************************)
ClientXs == {0, 60, 200, 330, 500}      \* e.clientX of the mouse events

\* the options HandTracking passes, by window.innerWidth < 768
minWidth(mobile) == IF mobile THEN 120 ELSE 240
maxWidth(mobile) == IF mobile THEN 240 ELSE 480
aspectRatio(mobile) == IF mobile THEN <<3, 4>> ELSE <<4, 3>>

\* useState(window.innerWidth < 768 ? 160 : 380), useState(width / aspectRatio)
useResizable(mobile) ==
    LET width == IF mobile THEN 160 ELSE 380
    IN  [mobile |-> mobile,
         width |-> width,
         height |-> RDiv(RInt(width), aspectRatio(mobile)),
         isResizing |-> FALSE,
         startWidth |-> 0,
         startX |-> 0,
         event |-> "none",
         held |-> FALSE]

\* ref.current.offsetWidth: the element is styled with the width state
offsetWidth(r) == r.width

\* A mutant of NewWidth: the Math.max(..., minWidth) is lost.
NewWidthNoMin(r, clientX) ==
    LET delta == clientX - r.startX
        lo == r.startWidth + delta
    IN  IF lo <= maxWidth(r.mobile) THEN lo ELSE maxWidth(r.mobile)

\* Math.min(Math.max(startWidth.current + delta, minWidth), maxWidth)
NewWidth(r, clientX) ==
    LET delta == clientX - r.startX
        sum == r.startWidth + delta
        lo == IF sum >= minWidth(r.mobile) THEN sum ELSE minWidth(r.mobile)
    IN  IF lo <= maxWidth(r.mobile) THEN lo ELSE maxWidth(r.mobile)

\* mousedown on the resize handle
startResize(clientX) ==
    /\ rz' = [rz EXCEPT
                 !.isResizing = TRUE,
                 !.startWidth = offsetWidth(rz),
                 !.startX = clientX,
                 !.event = "mousedown",
                 !.held = TRUE]
    /\ UNCHANGED <<trackVars, mapIn, mapOut, sim>>

\* mousemove on the document
resize(clientX) ==
    /\ rz' = IF ~rz.isResizing
             THEN [rz EXCEPT !.event = "mousemove"]
             ELSE [rz EXCEPT
                      !.width = NewWidth(rz, clientX),
                      !.height = RDiv(RInt(NewWidth(rz, clientX)),
                                      aspectRatio(rz.mobile)),
                      !.event = "mousemove"]
    /\ UNCHANGED <<trackVars, mapIn, mapOut, sim>>

\* mouseup on the document
stopResize ==
    /\ rz' = [rz EXCEPT
                 !.isResizing = FALSE,
                 !.event = "mouseup",
                 !.held = FALSE]
    /\ UNCHANGED <<trackVars, mapIn, mapOut, sim>>

ResizeNext ==
    \/ \E clientX \in ClientXs : startResize(clientX)
    \/ \E clientX \in ClientXs : resize(clientX)
    \/ stopResize

Init == TrackInit /\ MapInit /\ SimInit /\ rz = useResizable(FALSE)
Next == TrackNext
Spec == Init /\ [][Next]_vars

MapSpec == Init /\ [][MapNext]_vars
SimSpec == Init /\ [][SimNext]_vars

ColorNext == EngineUpdateMoving
ColorSpec == Init /\ [][ColorNext]_vars

\* the hook on a desktop or on a mobile viewport
ResizeInit ==
    /\ TrackInit /\ MapInit /\ SimInit
    /\ \E mobile \in BOOLEAN : rz = useResizable(mobile)
ResizeSpec == ResizeInit /\ [][ResizeNext]_vars

(***************************************************************************)
(* Claims about the HandTracking effect, checked under Spec.               *)
(***************************************************************************)

\* nothing of the effect is left to run: no timer, no awaited step, no
\* scheduled frame callback, no send in flight
Settled ==
    /\ initTimeout # "pending"
    /\ pc \in {"idle", "tracking", "failed", "returned"}
    /\ checkTimer # "pending"
    /\ rafPending = 0
    /\ inFlight = {}

\* C1: once the cleanup has run and every pending continuation has
\* settled, the acquired camera stream has its tracks stopped and the
\* constructed detector is closed.
C1_TeardownReleasesAll ==
    (~mounted /\ Settled) =>
        /\ stream # "live"
        /\ hands \notin {"initializing", "ready", "failed"}

\* C2: when an initialization step (script load, camera acquisition,
\* detector initialization) completes after the cleanup has run, nothing
\* further happens: no camera request, no detector construction, no frame
\* callback scheduled, no UI state set.
C2_MountedGuardsInit ==
    [][(~mounted /\ pc \in {"loadScript", "getUserMedia", "loadeddata",
                            "initialize"})
        => /\ cameraRequests' = cameraRequests
           /\ handsConstructed' = handsConstructed
           /\ rafCalls' = rafCalls
           /\ error' = error
           /\ isLoading' = isLoading
           /\ isCameraReady' = isCameraReady]_vars

\* C3: after the cleanup has run onHandUpdate is not called again and the
\* frame loop schedules no further frame.
C3_NothingAfterTeardown ==
    [][~mounted => /\ handUpdates' = handUpdates
                   /\ rafCalls' = rafCalls]_vars

\* C4: a cleanup that runs in an error state leaves no acquired camera
\* track running.
C4_TeardownAfterError ==
    [][(error # "none" /\ mounted /\ ~mounted') => stream' # "live"]_vars

\* the rank of a lifecycle stage: library load, camera, detector, tracking
Rank(p) ==
    CASE p = "idle" -> 0
      [] p = "loadScript" -> 1
      [] p \in {"getUserMedia", "loadeddata"} -> 2
      [] p = "initialize" -> 3
      [] p = "tracking" -> 4
      [] OTHER -> 5

\* the error that a failure in stage p sets
StageError(p) ==
    CASE p = "loadScript" -> "script"
      [] p = "getUserMedia" -> "camera"
      [] OTHER -> "tracking"

\* the lifecycle order and the terminal error, as a state predicate
C5_StateInv ==
    /\ cameraRequests > 0 => scriptPromise = "resolved"
    /\ hands # "none" => (streamRef /\ stream # "none" /\ isCameraReady)
    /\ (rafCalls > 0 \/ nextFrame > 1 \/ pc = "tracking") => handsRef
    /\ error # "none" =>
          /\ pc = "failed"
          /\ ~isLoading
          /\ rafCalls = 0 /\ rafPending = 0 /\ nextFrame = 1
          /\ hands \in {"none", "failed"}

\* the lifecycle order and the terminal error, step by step
C5_Step ==
    \* stages are entered in order, one at a time
    /\ (pc' # pc /\ pc' \notin {"failed", "returned"}) =>
          \/ Rank(pc') = Rank(pc) + 1
          \/ (pc = "getUserMedia" /\ pc' = "loadeddata")
    \* a failure of a stage sets that stage's error
    /\ (scriptPromise' = "rejected" /\ scriptPromise = "pending") =>
          error' = "script"
    /\ (pc = "getUserMedia" /\ pc' \notin {"getUserMedia", "loadeddata"}) =>
          error' = "camera"
    /\ (hands' = "failed" /\ hands # "failed") => error' = "tracking"
    /\ (pc' = "failed" /\ pc # "failed") => error' = StageError(pc)
    \* error is terminal
    /\ error # "none" =>
          /\ error' = error
          /\ pc' = pc
          /\ isLoading' = isLoading
          /\ loadAttempts' = loadAttempts
          /\ cameraRequests' = cameraRequests
          /\ handsConstructed' = handsConstructed
          /\ rafCalls' = rafCalls
          /\ nextFrame' = nextFrame

\* a library load that has failed, with no event or timer of the load
\* left to come, has set the error
C5_FailureSetsError ==
    (scriptErrors > 0 /\ scriptFetch = "done" /\ checkTimer # "pending") =>
        error = "script"

\* C5: the lifecycle goes library load, camera acquisition, detector
\* initialization, tracking, in that order; a failure of a stage sets the
\* error; once the error is set no later stage is attempted, the frame
\* loop is not started, isLoading is false and tracking is never reached.
C5_LifecycleOrder == C5_StateInv /\ C5_FailureSetsError

\* C6: the fallback source is tried at most once and only after an error
\* of the primary one; a second error rejects and ends the load; at most
\* two sources are tried, and the promise is settled by exactly one call
\* once no event or timer of the load is left to come.
C6_ScriptLoadOnce ==
    /\ loadAttempts <= 2
    /\ settleCalls <= 1
    /\ scriptSrc = "fallback" <=> scriptErrors >= 1
    /\ loadAttempts = 2 <=> scriptErrors >= 1
    /\ scriptErrors <= 2
    /\ scriptErrors = 2 =>
          (scriptPromise = "rejected" /\ scriptFetch = "done")
    /\ scriptPromise \in {"resolved", "rejected"} <=> settleCalls = 1
    /\ (scriptFetch = "done" /\ checkTimer # "pending") => settleCalls = 1

\* C7: at most one frame is in flight, it is the newest one, and the
\* results callbacks and the onHandUpdate calls they make come in frame
\* order, one callback per frame.
C7_FramesInOrder ==
    /\ Cardinality(inFlight) <= 1
    /\ \A f \in inFlight : f = nextFrame - 1
    /\ \A i, j \in 1..Len(processed) : i < j => processed[i] < processed[j]
    /\ \A i, j \in 1..Len(handUpdates) : i < j =>
          \/ handUpdates[i][1] < handUpdates[j][1]
          \/ /\ handUpdates[i][1] = handUpdates[j][1]
             /\ handUpdates[i][2] < handUpdates[j][2]
    /\ \A i \in 1..Len(handUpdates) :
          \E k \in 1..Len(processed) : processed[k] = handUpdates[i][1]

\* C7 witness: three frames were processed, two hands in the last two
C7_Witness ==
    /\ Len(processed) = 3
    /\ Len(handUpdates) >= 4
    /\ handUpdates[Len(handUpdates)] = <<3, 1>>

(***************************************************************************)
(* Claims about the coordinate mapping of the results listener, checked    *)
(* under MapSpec.                                                          *)
(***************************************************************************)
InUnit(r) == RLe(RInt(0), r) /\ RLe(r, RInt(1))

\* C8: for every normalized landmark in [0,1]x[0,1] and every viewport the
\* coordinates handed to onHandUpdate lie in [0, width] x [0, height]; a
\* landmark outside [0,1] is not rejected: the call is made, with the
\* coordinate on the bound it was clamped to.
C8_MappedWithinViewport ==
    \A i \in 1..Len(mapIn) :
        LET in == mapIn[i]
            out == mapOut[i]
        IN  /\ Len(mapOut) = Len(mapIn)
            /\ out.index = in.index
            /\ RLe(RInt(0), out.x) /\ RLe(out.x, RInt(in.innerWidth))
            /\ RLe(RInt(0), out.y) /\ RLe(out.y, RInt(in.innerHeight))
            /\ ~RLe(in.x, RInt(1)) => out.x = RInt(0)
            /\ ~RLe(RInt(0), in.x) => out.x = RInt(in.innerWidth)
            /\ ~RLe(in.y, RInt(1)) => out.y = RInt(in.innerHeight)
            /\ ~RLe(RInt(0), in.y) => out.y = RInt(0)

\* C8 witness: a landmark left of and below the frame was mapped
C8_Witness ==
    /\ Len(mapOut) = 1
    /\ ~RLe(RInt(0), mapIn[1].x)
    /\ ~RLe(mapIn[1].y, RInt(1))
    /\ mapOut[1].x = RInt(mapIn[1].innerWidth)
    /\ mapOut[1].y = RInt(mapIn[1].innerHeight)

\* clamp(W - (2W*n/d - W/2), 0, W) = clamp(W(3d - 4n) / 2d, 0, W)
ExpectedX(h, W) ==
    LET num == W * (3 * h[2] - 4 * h[1])
        den == 2 * h[2]
    IN  IF num <= 0 THEN RInt(0)
        ELSE IF num >= W * den THEN RInt(W)
        ELSE RNorm(<<num, den>>)

\* clamp(2H*n/d - H/2, 0, H) = clamp(H(4n - d) / 2d, 0, H)
ExpectedY(h, H) ==
    LET num == H * (4 * h[1] - h[2])
        den == 2 * h[2]
    IN  IF num <= 0 THEN RInt(0)
        ELSE IF num >= H * den THEN RInt(H)
        ELSE RNorm(<<num, den>>)

\* C9: x' = clamp(W - (2W*nx - 0.5W), 0, W) and y' = clamp(2H*ny - 0.5H,
\* 0, H), whatever the canvas dimensions; (0.5, 0.5) maps to (W/2, H/2),
\* which is (960, 540) for a 640x480 frame on a 1920x1080 viewport.
C9_MappingFormula ==
    \A i \in 1..Len(mapIn) :
        LET in == mapIn[i]
            out == mapOut[i]
        IN  /\ out.x = ExpectedX(in.x, in.innerWidth)
            /\ out.y = ExpectedY(in.y, in.innerHeight)
            /\ (in.x = <<1, 2>> /\ in.y = <<1, 2>>) =>
                  /\ RMul(out.x, RInt(2)) = RInt(in.innerWidth)
                  /\ RMul(out.y, RInt(2)) = RInt(in.innerHeight)
            /\ (/\ in.x = <<1, 2>> /\ in.y = <<1, 2>>
                /\ in.innerWidth = 1920 /\ in.innerHeight = 1080) =>
                  (out.x = RInt(960) /\ out.y = RInt(540))

\* C9 witness: the example of the specification
C9_Witness ==
    /\ Len(mapIn) = 1
    /\ mapIn[1].x = <<1, 2>> /\ mapIn[1].y = <<1, 2>>
    /\ mapIn[1].innerWidth = 1920 /\ mapIn[1].innerHeight = 1080
    /\ mapIn[1].canvasWidth = 640 /\ mapIn[1].canvasHeight = 480
    /\ mapIn[1].index = 0
    /\ mapOut[1] = [index |-> 0, x |-> <<960, 1>>, y |-> <<540, 1>>]

(***************************************************************************)
(* Claims about LiquidSimulation, checked under SimSpec.                   *)
(***************************************************************************)
C10_State ==
    sim.world # {} =>
        /\ sim.leftHandBody.id = "left"
        /\ sim.rightHandBody.id = "right"
        /\ {"left", "right"} \subseteq sim.world
        /\ Cardinality(sim.world \cap {"left", "right"}) = 2

C10_Step ==
    /\ (sim' # sim /\ sim'.op = "updateHandPosition") =>
          LET target == <<sim'.call[2], sim'.call[3]>>
          IN  /\ sim'.world = sim.world
              /\ sim'.call[1] = 0 =>
                    /\ sim'.leftHandBody.position = target
                    /\ sim'.leftHandBody.id = "left"
                    /\ sim'.rightHandBody = sim.rightHandBody
              /\ sim'.call[1] = 1 =>
                    /\ sim'.rightHandBody.position = target
                    /\ sim'.rightHandBody.id = "right"
                    /\ sim'.leftHandBody = sim.leftHandBody
    /\ sim'.world # sim.world => (sim'.op = "destroy" /\ sim'.world = {})

\* C10: index 0 always addresses the left body and index 1 the right one;
\* an update for one index leaves the other body as it was; until destroy
\* both bodies stay in the world and neither is replaced.
C10_ProxyIdentity == [](C10_State) /\ [][C10_Step]_vars

\* C10 witness: both proxies have been moved, to different targets, the
\* right one last, and the simulation has not been destroyed
C10_Witness ==
    /\ sim.world # {}
    /\ sim.op = "updateHandPosition"
    /\ sim.call = <<1, RInt(1920), RInt(0)>>
    /\ sim.leftHandBody.position = <<RInt(960), RInt(540)>>
    /\ sim.rightHandBody.position = <<RInt(1920), RInt(0)>>
    /\ sim.rightHandBody.velocity # <<RInt(0), RInt(0)>>

\* v is 1.2 times d
SixFifths(v, d) == 5 * v[1] * d[2] = 6 * d[1] * v[2]

\* the body that index i is documented to address
ProxyOf(s, i) == IF i = 0 THEN s.leftHandBody ELSE s.rightHandBody

C11_State ==
    \A i \in HandIndices :
        sim.last[i] # <<>> => ProxyOf(sim, i).position = sim.last[i]

C11_Step ==
    (sim' # sim /\ sim'.op = "updateHandPosition") =>
        LET i == sim'.call[1]
            x == sim'.call[2]
            y == sim'.call[3]
            before == ProxyOf(sim, i)
            after == ProxyOf(sim', i)
        IN  /\ after.position = <<x, y>>
            /\ SixFifths(after.velocity[1], RSub(x, before.position[1]))
            /\ SixFifths(after.velocity[2], RSub(y, before.position[2]))
            /\ sim.last[i] # <<>> =>
                  /\ SixFifths(after.velocity[1], RSub(x, sim.last[i][1]))
                  /\ SixFifths(after.velocity[2], RSub(y, sim.last[i][2]))

\* C11: after updateHandPosition(i, x, y) the addressed body is at (x, y)
\* and its velocity is 1.2 times the displacement from where it was; over
\* successive calls for one index that is 1.2 times the difference of this
\* call's target and the previous call's target.
C11_VelocityFromDisplacement == [](C11_State) /\ [][C11_Step]_vars

\* C11 witness: the right body went from (960, 540) to (0, 0) and carries
\* the velocity (-1152, -648)
C11_Witness ==
    /\ sim.op = "updateHandPosition"
    /\ sim.call = <<1, RInt(0), RInt(0)>>
    /\ sim.rightHandBody.position = <<RInt(0), RInt(0)>>
    /\ sim.rightHandBody.velocity = <<RInt(-1152), RInt(-648)>>

\* C12: for a fixed viewport and the same y, the x' of normalized x = 0
\* and the x' of normalized x = 1 are mirror images about the horizontal
\* centre of the viewport (they add up to the width), and the y' agree.
\* The two points are the two hands of one results event.
C12_Mirroring ==
    \A i, j \in 1..Len(mapIn) :
        (/\ mapIn[i].x = RInt(0)
         /\ mapIn[j].x = RInt(1)
         /\ mapIn[i].y = mapIn[j].y
         /\ mapIn[i].innerWidth = mapIn[j].innerWidth
         /\ mapIn[i].innerHeight = mapIn[j].innerHeight) =>
            /\ RAdd(mapOut[i].x, mapOut[j].x) = RInt(mapIn[i].innerWidth)
            /\ RSub(mapOut[i].x, <<mapIn[i].innerWidth, 2>>) =
                  RSub(<<mapIn[i].innerWidth, 2>>, mapOut[j].x)
            /\ mapOut[i].y = mapOut[j].y

\* C12 witness: on a 1024x768 viewport hand 0 at (0, 1/2) went to the
\* right edge and hand 1 at (1, 1/2) to the left edge, both at mid height
C12_Witness ==
    /\ Len(mapIn) = 2
    /\ mapIn[1].x = RInt(0) /\ mapIn[1].y = <<1, 2>>
    /\ mapIn[2].x = RInt(1) /\ mapIn[2].y = <<1, 2>>
    /\ mapIn[1].innerWidth = 1024
    /\ mapOut[1].x = RInt(1024) /\ mapOut[1].y = RInt(384)
    /\ mapOut[2].x = RInt(0) /\ mapOut[2].y = RInt(384)
    /\ sim.leftHandBody.position = <<RInt(1024), RInt(384)>>
    /\ sim.rightHandBody.position = <<RInt(0), RInt(384)>>

(***************************************************************************)
(* Claims about the recolouring, checked under ColorSpec.                  *)
(***************************************************************************)
SpeedSquared(p) ==
    p.velocity[1] * p.velocity[1] + p.velocity[2] * p.velocity[2]

\* C13: after an engine update every particle has hue in [0, 180] and
\* lightness in [50, 70]; hue 180 and lightness 50 at speed 0, hue 0 and
\* lightness 70 at every speed of 15 or more; and of two particles the
\* faster one has no larger hue and no smaller lightness.
C13_RecolorMonotonic ==
    sim.op = "update" =>
        \A k \in 1..NumParticles :
            LET p == sim.particles[k]
                c == p.strokeStyle
            IN  /\ RLe(RInt(0), c.hue) /\ RLe(c.hue, RInt(180))
                /\ RLe(RInt(50), c.lightness) /\ RLe(c.lightness, RInt(70))
                /\ c.saturation = 100
                /\ SpeedSquared(p) = 0 =>
                      (c.hue = RInt(180) /\ c.lightness = RInt(50))
                /\ SpeedSquared(p) >= 15 * 15 =>
                      (c.hue = RInt(0) /\ c.lightness = RInt(70))
                /\ \A j \in 1..NumParticles :
                      SpeedSquared(p) > SpeedSquared(sim.particles[j]) =>
                          /\ RLe(c.hue, sim.particles[j].strokeStyle.hue)
                          /\ RLe(sim.particles[j].strokeStyle.lightness,
                                 c.lightness)

\* C13 witness: one particle at speed 5 (hue 120, lightness 56 2/3), one at
\* speed 20, above the cap (hue 0, lightness 70)
C13_Witness ==
    /\ sim.op = "update"
    /\ sim.particles[1].velocity = <<3, 4>>
    /\ sim.particles[1].strokeStyle.hue = RInt(120)
    /\ sim.particles[1].strokeStyle.lightness = <<170, 3>>
    /\ sim.particles[2].velocity = <<-12, -16>>
    /\ sim.particles[2].strokeStyle.hue = RInt(0)
    /\ sim.particles[2].strokeStyle.lightness = RInt(70)

(***************************************************************************)
(* Claims about useResizable, checked under ResizeSpec.                    *)
(***************************************************************************)
C14_State ==
    /\ minWidth(rz.mobile) <= rz.width
    /\ rz.width <= maxWidth(rz.mobile)
    /\ RMul(rz.height, aspectRatio(rz.mobile)) = RInt(rz.width)

C14_Step ==
    (rz' # rz /\ rz'.event = "mousemove" /\ ~rz.held) =>
        (rz'.width = rz.width /\ rz'.height = rz.height)

\* C14: after any sequence of mousedown-on-handle, mousemove and mouseup
\* events minWidth <= width <= maxWidth and height = width / aspectRatio;
\* a mousemove that is not between a mousedown on the handle and the next
\* mouseup leaves width and height as they were.
C14_ResizeBounds == [](C14_State) /\ [][C14_Step]_vars

\* C14 witness: a drag to the left has run into minWidth on a desktop
\* viewport, and the drag is still held
C14_Witness ==
    /\ ~rz.mobile
    /\ rz.held
    /\ rz.event = "mousemove"
    /\ rz.startWidth = 380
    /\ rz.startX = 330
    /\ rz.width = 240
    /\ rz.height = RInt(180)

====
